---- MODULE Spec2Model ----
(***************************************************************************)
(* Physician lookup of the CMS calculator backend: fetch_physician_data    *)
(* ("Python Backend/cms_calc.py") as a state machine.  One behaviour of    *)
(* Spec is one call: the parameters are built, session.get sends the query *)
(* through an HTTPAdapter mounted with urllib3's Retry, the remote service *)
(* answers each HTTP attempt, and a 200 answer is decoded, scanned and     *)
(* projected.  DraftSpec runs the other three drafts of the function as    *)
(* well, EndpointSpec puts a search_physician endpoint around the call,    *)
(* BulkSpec is a request to a bulk handler of api.py, CallsSpec is a       *)
(* process that makes several calls, interleaved or one after another, and *)
(* StoreSpec is the calculation store with its two handlers.               *)
(*                                                                         *)
(* Python strings are sequences of one-character strings.  A JSON value of *)
(* a row is a tagged record; a key the row does not hold is Absent.        *)
(***************************************************************************)
EXTENDS Integers, Sequences, FiniteSets, TLC

VARIABLES request, pc, total, attempts, response, queries, data, outcome,
          draft, endpoint, reply, batch, seq, peer,
          calculation_data_store, issued, hook

\* what a call of fetch_physician_data never assigns: the file whose draft of the
\* function is running, the file whose search_physician endpoint called it, the
\* status that endpoint answers with, the batch of a bulk handler, the ordinal of
\* the call and the locals of another call of the same process; and the module's
\* dict of stored calculations, the replies store_calculation has given and the
\* last run of hubspot_webhook
site == <<calculation_data_store, issued, hook>>

others == <<draft, endpoint, reply, batch, seq, peer, calculation_data_store, issued, hook>>

vars == <<request, pc, total, attempts, response, queries, data, outcome,
          draft, endpoint, reply, batch, seq, peer, calculation_data_store, issued, hook>>

(***************************************************************************)
(* Bounds of the model.                                                    *)
(***************************************************************************)
MaxRows == 2

MaxNames == 2

MaxCalls == 3

MaxStored == 2

(***************************************************************************)
(* Program constants.                                                      *)
(***************************************************************************)
RetryTotal == 3

NpiSize == 1

NameSize == 5000

status_forcelist == {429, 500, 502, 503, 504}

(***************************************************************************)
(* str: lower(), upper(), startswith(), the in operator, split(maxsplit=1) *)
(***************************************************************************)
UpperCase == <<"A","B","C","D","E","F","G","H","I","J","K","L","M",
               "N","O","P","Q","R","S","T","U","V","W","X","Y","Z">>

LowerCase == <<"a","b","c","d","e","f","g","h","i","j","k","l","m",
               "n","o","p","q","r","s","t","u","v","w","x","y","z">>

Digits == <<"0","1","2","3","4","5","6","7","8","9">>

Letters == 1..26

IsSpace(c) == c = " "

\* the case mappings of the ASCII letters, as tables
LowerOf == [c \in {UpperCase[i] : i \in Letters} |->
               LowerCase[CHOOSE i \in Letters : UpperCase[i] = c]]

UpperOf == [c \in {LowerCase[i] : i \in Letters} |->
               UpperCase[CHOOSE i \in Letters : LowerCase[i] = c]]

LowerChar(c) == IF c \in DOMAIN LowerOf THEN LowerOf[c] ELSE c

UpperChar(c) == IF c \in DOMAIN UpperOf THEN UpperOf[c] ELSE c

Lower(s) == [i \in 1..Len(s) |-> LowerChar(s[i])]

Upper(s) == [i \in 1..Len(s) |-> UpperChar(s[i])]

StartsWith(s, p) == Len(p) <= Len(s) /\ SubSeq(s, 1, Len(p)) = p

Contains(s, p) ==
    \E k \in 0..(Len(s) - Len(p)) : SubSeq(s, k + 1, k + Len(p)) = p

\* index of the first character at or after i that is (not) a space; Len(s)+1 if none
RECURSIVE SkipSpaces(_, _)
SkipSpaces(s, i) ==
    IF i > Len(s) \/ ~IsSpace(s[i]) THEN i ELSE SkipSpaces(s, i + 1)

RECURSIVE SkipToken(_, _)
SkipToken(s, i) ==
    IF i > Len(s) \/ IsSpace(s[i]) THEN i ELSE SkipToken(s, i + 1)

\* s.split(maxsplit=1): at most two parts; the second keeps its trailing spaces
Split1(s) ==
    LET b == SkipSpaces(s, 1)
        e == SkipToken(s, b)
        r == SkipSpaces(s, e)
    IN  IF b > Len(s) THEN <<>>
        ELSE IF r > Len(s) THEN << SubSeq(s, b, e - 1) >>
        ELSE << SubSeq(s, b, e - 1), SubSeq(s, r, Len(s)) >>

\* s.strip()
RECURSIVE RStripLen(_, _)
RStripLen(s, n) ==
    IF n = 0 \/ ~IsSpace(s[n]) THEN n ELSE RStripLen(s, n - 1)

Strip(s) == SubSeq(s, SkipSpaces(s, 1), RStripLen(s, Len(s)))

(***************************************************************************)
(* JSON values of a row, and the row accesses result[key], result.get(key) *)
(***************************************************************************)
Absent == [t |-> "absent", s |-> <<>>]

Null == [t |-> "null", s |-> <<>>]

Str(s) == [t |-> "str", s |-> s]

\* result.get(key): None when the key is absent
Get(v) == IF v = Absent THEN Null ELSE v

\* result.get(key, 0) handed to int() or float(): the default is the number 0
IsDigits(s) == Len(s) > 0 /\ \A i \in 1..Len(s) : \E d \in 1..10 : Digits[d] = s[i]

DigitOf(c) == (CHOOSE d \in 1..10 : Digits[d] = c) - 1

RECURSIVE DecimalOf(_)
DecimalOf(s) ==
    IF s = <<>> THEN 0
    ELSE 10 * DecimalOf(SubSeq(s, 1, Len(s) - 1)) + DigitOf(s[Len(s)])

\* int(result.get(key, 0)) / float(result.get(key, 0)): [err, n]
ToNumber(v) ==
    IF v = Absent THEN [err |-> "", n |-> 0]
    ELSE IF v = Null THEN [err |-> "TypeError", n |-> 0]
    ELSE IF IsDigits(v.s) THEN [err |-> "", n |-> DecimalOf(v.s)]
    ELSE [err |-> "ValueError", n |-> 0]

Float(n) == [float |-> n]

\* f"{x}": None is formatted as the text None
Format(v) == IF v = Null THEN <<"N","o","n","e">> ELSE v.s

(***************************************************************************)
(* Optional[...] is a sequence of length at most one: <<>> is None.        *)
(***************************************************************************)
None == <<>>

Some(x) == <<x>>

\* Python truth of an Optional[str]: None and "" are both false
Truthy(o) == o # None /\ o[1] # <<>>

(***************************************************************************)
(* fetch_physician_data, lines 100-125: the query parameters               *)
(***************************************************************************)
\* lines 110-115: [err, first_name, last_name]
\* lines 110-115 with a guard: a term without a token gives two empty names
NameParts_guarded(physician_name) ==
    LET name_parts == Split1(physician_name)
    IN  IF Len(name_parts) = 2
        THEN [err |-> "", first_name |-> name_parts[1], last_name |-> name_parts[2]]
        ELSE IF Len(name_parts) = 1
        THEN [err |-> "", first_name |-> <<>>, last_name |-> name_parts[1]]
        ELSE [err |-> "", first_name |-> <<>>, last_name |-> <<>>]

NameParts(physician_name) ==
    LET name_parts == Split1(physician_name)
    IN  IF Len(name_parts) = 2
        THEN [err |-> "", first_name |-> name_parts[1], last_name |-> name_parts[2]]
        ELSE IF Len(name_parts) = 1
        THEN [err |-> "", first_name |-> <<>>, last_name |-> name_parts[1]]
        ELSE [err |-> "IndexError", first_name |-> <<>>, last_name |-> <<>>]

\* lines 124-125
StateFilter(state) == IF Truthy(state) THEN Some(Upper(state[1])) ELSE None

\* lines 101-125 with the NPI branch asking for a page of 5000 rows
BuildParams_page(req) ==
    IF req.search_type = "npi"
    THEN [npi |-> Some(req.physician_name), last |-> None,
          state |-> StateFilter(req.state), size |-> NameSize]
    ELSE [npi |-> None, last |-> Some(NameParts(req.physician_name).last_name),
          state |-> StateFilter(req.state), size |-> NameSize]

\* lines 101-125 with the NPI branch filtering the last/org name column
BuildParams_column(req) ==
    IF req.search_type = "npi"
    THEN [npi |-> None, last |-> Some(req.physician_name),
          state |-> StateFilter(req.state), size |-> NpiSize]
    ELSE [npi |-> None, last |-> Some(NameParts(req.physician_name).last_name),
          state |-> StateFilter(req.state), size |-> NameSize]

\* lines 101-125: params of the one session.get call
BuildParams(req) ==
    IF req.search_type = "npi"
    THEN [npi |-> Some(req.physician_name), last |-> None,
          state |-> StateFilter(req.state), size |-> NpiSize]
    ELSE [npi |-> None, last |-> Some(NameParts(req.physician_name).last_name),
          state |-> StateFilter(req.state), size |-> NameSize]

(***************************************************************************)
(* lines 146-152 and 162-168: the result built from the selected row       *)
(***************************************************************************)
\* the dict literal with the name folded to lower case
Project_lowered(r) ==
    LET benes == ToNumber(r.benes)
        amt   == ToNumber(r.amt)
    IN  IF r.first = Absent \/ r.last = Absent THEN [err |-> "KeyError", result |-> None]
        ELSE IF benes.err # "" THEN [err |-> benes.err, result |-> None]
        ELSE IF amt.err # "" THEN [err |-> amt.err, result |-> None]
        ELSE [err |-> "",
              result |-> Some([name |-> Lower(Format(r.first) \o <<" ">> \o Format(r.last)),
                               Tot_Benes |-> benes.n,
                               Tot_Mdcr_Alowd_Amt |-> Float(amt.n),
                               NPI |-> Get(r.npi),
                               State |-> Get(r.state)])]

\* [err, result]; the dict literal is evaluated top to bottom
Project(r) ==
    LET benes == ToNumber(r.benes)
        amt   == ToNumber(r.amt)
    IN  IF r.first = Absent \/ r.last = Absent THEN [err |-> "KeyError", result |-> None]
        ELSE IF benes.err # "" THEN [err |-> benes.err, result |-> None]
        ELSE IF amt.err # "" THEN [err |-> amt.err, result |-> None]
        ELSE [err |-> "",
              result |-> Some([name |-> Format(r.first) \o <<" ">> \o Format(r.last),
                               Tot_Benes |-> benes.n,
                               Tot_Mdcr_Alowd_Amt |-> Float(amt.n),
                               NPI |-> Get(r.npi),
                               State |-> Get(r.state)])]

(***************************************************************************)
(* lines 156-171: the scan of a name search                                *)
(***************************************************************************)
\* line 158, left conjunct
LastNameMatches(row_last, last_name) == Lower(row_last) = Lower(last_name)

\* the test of line 159 with "in" in place of startswith
FirstNameMatches_in(row_first, first_name) == Contains(Lower(row_first), Lower(first_name))

\* the test of line 159 without lower() on the row's side
FirstNameMatches_cased(row_first, first_name) == StartsWith(row_first, first_name)

\* line 159, the startswith test
FirstNameMatches(row_first, first_name) == StartsWith(Lower(row_first), Lower(first_name))

\* lines 158-159 with Python's evaluation order: "match", "skip" or the exception
RowTest(r, first_name, last_name) ==
    IF r.last = Absent THEN "KeyError"
    ELSE IF r.last = Null THEN "AttributeError"
    ELSE IF ~LastNameMatches(r.last.s, last_name) THEN "skip"
    ELSE IF first_name = <<>> THEN "match"
    ELSE IF r.first = Absent THEN "KeyError"
    ELSE IF r.first = Null THEN "AttributeError"
    ELSE IF FirstNameMatches(r.first.s, first_name) THEN "match"
    ELSE "skip"

Pending == [kind |-> "pending", idx |-> 0, examined |-> 0, result |-> None, err |-> ""]

NotFound(n) == [kind |-> "notfound", idx |-> 0, examined |-> n, result |-> None, err |-> ""]

\* an except clause that logs the exception and returns None
Raised_swallowed(e, n) == NotFound(n)

Raised(e, n) == [kind |-> "error", idx |-> 0, examined |-> n, result |-> None, err |-> e]

\* return of the dict built from row i, or the exception building it raises
Selected(rows, i) ==
    LET p == Project(rows[i])
    IN  IF p.err # "" THEN Raised(p.err, i)
        ELSE [kind |-> "match", idx |-> i, examined |-> i, result |-> p.result, err |-> ""]

RECURSIVE Scan(_, _, _, _, _)
Scan(rows, i, search_type, first_name, last_name) ==
    IF i > Len(rows) THEN NotFound(Len(rows))
    ELSE IF search_type # "name" THEN Scan(rows, i + 1, search_type, first_name, last_name)
    ELSE LET t == RowTest(rows[i], first_name, last_name)
         IN  IF t = "match" THEN Selected(rows, i)
             ELSE IF t = "skip" THEN Scan(rows, i + 1, search_type, first_name, last_name)
             ELSE Raised(t, i)

\* lines 138-171 with the place of the scan kept by the module: the scan goes on
\* after the last row another call examined
Resolve_resumed(req, rows) ==
    IF rows = <<>> THEN NotFound(0)
    ELSE IF req.search_type = "npi" THEN Selected(rows, 1)
    ELSE LET np == NameParts(req.physician_name)
         IN  Scan(rows, peer.outcome.examined + 1, req.search_type,
                  np.first_name, np.last_name)

\* lines 138-171 without the guards of lines 138 and 144: data[0] of an empty list
Resolve_unguarded(req, rows) ==
    IF req.search_type = "npi"
    THEN IF rows = <<>> THEN Raised("IndexError", 0) ELSE Selected(rows, 1)
    ELSE LET np == NameParts(req.physician_name)
         IN  Scan(rows, 1, req.search_type, np.first_name, np.last_name)

\* lines 138-171: what the call returns or raises for the decoded rows
Resolve(req, rows) ==
    IF rows = <<>> THEN NotFound(0)
    ELSE IF req.search_type = "npi" THEN Selected(rows, 1)
    ELSE LET np == NameParts(req.physician_name)
         IN  Scan(rows, 1, req.search_type, np.first_name, np.last_name)

(***************************************************************************)
(* The draft of fetch_physician_data in cms_calc.py at the top of src,     *)
(* lines 49-127.  Its session and Retry are those of lines 90-98 above.    *)
(***************************************************************************)
Backend == "Python Backend/cms_calc.py"

Top == "cms_calc.py"

Inner == "Python Backend/src/cms_calc.py"

Deprecated == "Python Backend/physician_data_deprecated.py"

Drafts == {Backend, Top, Inner, Deprecated}

\* lines 67-85: no state filter is added; offset 0, the first page, is left out
TopBuildParams(req) ==
    IF req.search_type = "npi"
    THEN [npi |-> Some(req.physician_name), last |-> None, state |-> None, size |-> NameSize]
    ELSE [npi |-> None, last |-> Some(NameParts(req.physician_name).last_name),
          state |-> None, size |-> NameSize]

\* result.get(key, 'N/A')
GetOr(v) == IF v = Absent THEN Str(<<"N","/","A">>) ELSE v

\* lines 100-106 and 115-121: the values are copied, not converted
TopProject(r) ==
    IF r.first = Absent \/ r.last = Absent THEN [err |-> "KeyError", result |-> None]
    ELSE [err |-> "",
          result |-> Some([name |-> Format(r.first) \o <<" ">> \o Format(r.last),
                           Tot_Benes |-> GetOr(r.benes),
                           Tot_Mdcr_Alowd_Amt |-> GetOr(r.amt),
                           NPI |-> GetOr(r.npi),
                           State |-> GetOr(r.state)])]

\* lines 111-113 with Python's evaluation order: "match", "skip" or the exception
TopRowTest(r, first_name, last_name, state) ==
    IF r.last = Absent THEN "KeyError"
    ELSE IF r.last = Null THEN "AttributeError"
    ELSE IF Lower(r.last.s) # Lower(last_name) THEN "skip"
    ELSE IF r.first = Absent THEN "KeyError"
    ELSE IF r.first = Null THEN "AttributeError"
    ELSE IF Lower(r.first.s) # Lower(first_name) THEN "skip"
    ELSE IF ~Truthy(state) THEN "match"
    ELSE IF r.state = Null THEN "AttributeError"
    ELSE IF Upper(IF r.state = Absent THEN <<>> ELSE r.state.s) = Upper(state[1]) THEN "match"
    ELSE "skip"

TopSelected(rows, i) ==
    LET p == TopProject(rows[i])
    IN  IF p.err # "" THEN Raised(p.err, i)
        ELSE [kind |-> "match", idx |-> i, examined |-> i, result |-> p.result, err |-> ""]

RECURSIVE TopScan(_, _, _, _, _)
TopScan(rows, i, first_name, last_name, state) ==
    IF i > Len(rows) THEN NotFound(Len(rows))
    ELSE LET t == TopRowTest(rows[i], first_name, last_name, state)
         IN  IF t = "match" THEN TopSelected(rows, i)
             ELSE IF t = "skip" THEN TopScan(rows, i + 1, first_name, last_name, state)
             ELSE Raised(t, i)

\* lines 93-123
TopResolve(req, rows) ==
    IF rows = <<>> THEN NotFound(0)
    ELSE IF req.search_type = "npi" THEN TopSelected(rows, 1)
    ELSE LET np == NameParts(req.physician_name)
         IN  TopScan(rows, 1, np.first_name, np.last_name, req.state)

(***************************************************************************)
(* The draft of "Python Backend/src/cms_calc.py", lines 33-88: the         *)
(* parameters of lines 101-125 above, sent with a plain requests.get.      *)
(***************************************************************************)
\* lines 71-84: only an NPI search returns a row
InnerResolve(req, rows) ==
    IF rows = <<>> THEN NotFound(0)
    ELSE IF req.search_type = "npi" THEN Selected(rows, 1)
    ELSE NotFound(0)

(***************************************************************************)
(* The draft of "Python Backend/physician_data_deprecated.py", lines 9-85. *)
(***************************************************************************)
\* lines 26-44; offset 0, the first page, is left out
DeprecatedBuildParams(req) ==
    IF req.search_type = "npi"
    THEN [npi |-> Some(req.physician_name), last |-> None,
          state |-> StateFilter(req.state), size |-> NameSize]
    ELSE [npi |-> None, last |-> Some(NameParts(req.physician_name).last_name),
          state |-> StateFilter(req.state), size |-> NameSize]

\* the last conjunct of lines 60 and 65
DeprecatedStateTest(r, state) ==
    IF ~Truthy(state) THEN "match"
    ELSE IF r.state = Null THEN "AttributeError"
    ELSE IF Upper(IF r.state = Absent THEN <<>> ELSE r.state.s) = Upper(state[1]) THEN "match"
    ELSE "skip"

\* lines 57-65 with Python's evaluation order: "match", "skip" or the exception
DeprecatedRowTest(r, req, first_name, last_name) ==
    IF req.search_type = "npi"
    THEN IF r.npi = Absent THEN "KeyError"
         ELSE IF r.npi # Str(req.physician_name) THEN "skip"
         ELSE DeprecatedStateTest(r, req.state)
    ELSE IF r.last = Absent THEN "KeyError"
    ELSE IF r.last = Null THEN "AttributeError"
    ELSE IF Lower(r.last.s) # Lower(last_name) THEN "skip"
    ELSE IF r.first = Absent THEN "KeyError"
    ELSE IF r.first = Null THEN "AttributeError"
    ELSE IF Lower(r.first.s) # Lower(first_name) THEN "skip"
    ELSE DeprecatedStateTest(r, req.state)

\* lines 56-78; the dict of lines 69-75 is the one of TopProject
RECURSIVE DeprecatedScan(_, _, _, _, _)
DeprecatedScan(rows, i, req, first_name, last_name) ==
    IF i > Len(rows) THEN NotFound(Len(rows))
    ELSE LET t == DeprecatedRowTest(rows[i], req, first_name, last_name)
         IN  IF t = "match" THEN TopSelected(rows, i)
             ELSE IF t = "skip" THEN DeprecatedScan(rows, i + 1, req, first_name, last_name)
             ELSE Raised(t, i)

\* lines 53-78
DeprecatedResolve(req, rows) ==
    IF rows = <<>> THEN NotFound(0)
    ELSE IF req.search_type = "npi" THEN DeprecatedScan(rows, 1, req, <<>>, <<>>)
    ELSE LET np == NameParts(req.physician_name)
         IN  DeprecatedScan(rows, 1, req, np.first_name, np.last_name)

\* the parameters and the return value of the draft that is running
Params(d, req) ==
    IF d = Top THEN TopBuildParams(req)
    ELSE IF d = Deprecated THEN DeprecatedBuildParams(req)
    ELSE BuildParams(req)

Returns(d, req, rows) ==
    IF d = Top THEN TopResolve(req, rows)
    ELSE IF d = Inner THEN InnerResolve(req, rows)
    ELSE IF d = Deprecated THEN DeprecatedResolve(req, rows)
    ELSE Resolve(req, rows)

(***************************************************************************)
(* The HTTPAdapter's Retry(total=3, status_forcelist, allowed_methods),    *)
(* lines 90-98, as urllib3 applies it to the GET of line 128.              *)
(***************************************************************************)
\* is_retry taking every 5xx status for a transient one
IsRetry_5xx(status) == status = 429 \/ status >= 500

\* Retry.is_retry for a GET: the status is in status_forcelist
IsRetry(status) == status \in status_forcelist

\* is_exhausted allowing one retry more
IsExhausted_late(t) == t < -1

\* Retry.is_exhausted of the Retry that increment() built, total already decremented
IsExhausted(t) == t < 0

\* response.raise_for_status(), line 133: 4xx and 5xx raise HTTPError
RaisesForStatus(status) == status >= 400 /\ status < 600

(***************************************************************************)
(* Inputs: the requests, and the rows the remote service may hand back.    *)
(***************************************************************************)
JohnSmith == <<"J","o","h","n"," ","S","m","i","t","h">>

Smith == <<"S","m","i","t","h">>

Blank == <<" ">>

\* a term typed with a trailing blank
JohnSmithPadded == JohnSmith \o <<" ">>

NameTerms == {JohnSmith, Smith, Blank, JohnSmithPadded}

NpiTerms == { <<"1">>, <<" ","1">> }

States == {None, Some(<<"t","x">>)}

Requests ==
    [search_type : {"name"}, physician_name : NameTerms, state : States]
        \cup [search_type : {"npi"}, physician_name : NpiTerms, state : States]

FirstVals == {Absent, Str(<<>>), Str(<<"J","o","n">>), Str(<<"j","o","h","n">>),
              Str(<<"M","c","J","o","h","n">>)}

LastVals == {Absent, Str(<<"S","M","I","T","H">>), Str(<<"D","o","e">>)}

StateVals == {Str(<<"T","X">>), Str(<<"C","A">>)}

NpiVals == {Str(<<"1">>), Str(<<"2">>)}

BenesVals == {Absent, Null, Str(<<"1","2">>)}

AmtVals == {Absent, Null, Str(<<"7">>)}

PlainRow == [first |-> Str(<<"j","o","h","n">>), last |-> Str(<<"S","M","I","T","H">>),
             state |-> Str(<<"T","X">>), npi |-> Str(<<"1">>),
             benes |-> Str(<<"1","2">>), amt |-> Str(<<"7">>)]

\* the field groups in which a row differs from PlainRow
Differs(r) ==
    {g \in {"name", "state", "npi", "stats"} :
        \/ g = "name"  /\ <<r.first, r.last>> # <<PlainRow.first, PlainRow.last>>
        \/ g = "state" /\ r.state # PlainRow.state
        \/ g = "npi"   /\ r.npi # PlainRow.npi
        \/ g = "stats" /\ <<r.benes, r.amt>> # <<PlainRow.benes, PlainRow.amt>>}

\* rows that vary one group of fields of PlainRow at a time
RowPool ==
    {r \in [first : FirstVals, last : LastVals, state : StateVals, npi : NpiVals,
            benes : BenesVals, amt : AmtVals] : Cardinality(Differs(r)) <= 1}

RowSeqs == UNION {[1..n -> RowPool] : n \in 0..MaxRows}

PermanentStatuses == {400, 404, 501}

NoResponse == [kind |-> "none", status |-> 0]

Http(status) == [kind |-> "http", status |-> status]

NetworkFailure == [kind |-> "neterror", status |-> 0]

(***************************************************************************)
(* The search_physician endpoints: "Python Backend/cms_calc.py" lines      *)
(* 54-78, api.py lines 181-206, cms_data_extractor_test.py lines 29-41.    *)
(* The first calls the fetch_physician_data of its own file; the other two *)
(* import theirs from modules that are not in src (physician_data,         *)
(* your_existing_file), so their call is a step that returns a dict,       *)
(* returns None or raises.                                                 *)
(***************************************************************************)
Api == "api.py"

ExtractorTest == "cms_data_extractor_test.py"

Endpoints == {Backend, Api, ExtractorTest}

NoReply == 0

\* a dict for the name asked for, None, or an exception
ImportedReturns(physician_name) ==
    { [kind |-> "match", idx |-> 1, examined |-> 1, err |-> "",
       result |-> Some([name |-> physician_name, Tot_Benes |-> 12,
                        Tot_Mdcr_Alowd_Amt |-> Float(7),
                        NPI |-> Str(<<"1">>), State |-> Str(<<"T","X">>)])],
      NotFound(0),
      Raised("Exception", 0) }

\* "if isinstance(e, HTTPException): raise" in the except clause: lines 76-77 of
\* "Python Backend/cms_calc.py", 203-204 of api.py; absent from lines 39-41 of
\* cms_data_extractor_test.py
Reraises(ep) == ep \in {Backend, Api}

\* the except clause: the status of the HTTPException that leaves the endpoint,
\* given the status of the HTTPException raised in the try block (0: another exception)
Except(ep, raised) == IF raised # 0 /\ Reraises(ep) THEN raised ELSE 500

\* the try block and its except clause
Translate(ep, out) ==
    IF out.kind = "match" THEN 200
    ELSE IF out.kind = "notfound" THEN Except(ep, 404)
    ELSE Except(ep, 0)

(***************************************************************************)
(* The bulk handlers of api.py: process_bulk_names (lines 99-138) and      *)
(* process_file (lines 140-179), from the parsed names on.  A batch is     *)
(* [handler, state, parsed_names, i, results, log, status]: i is the place *)
(* of the loop in parsed_names, log the calls of fetch_physician_data made *)
(* so far with what each returned or raised.                               *)
(***************************************************************************)
AnnLee == <<"A","n","n"," ","L","e","e">>

BulkNames == {JohnSmith, AnnLee}

Handlers == {"process_bulk_names", "process_file"}

\* parse_names_from_list pairs every name with None (line 51); parse_names_from_file
\* may pair it with a state
ParsedPairs(handler) ==
    [name : BulkNames,
     state : IF handler = "process_file" THEN {None, Some(<<"C","A">>)} ELSE {None}]

Batches ==
    UNION {[handler : {h}, state : States,
            parsed_names : UNION {[1..n -> ParsedPairs(h)] : n \in 0..MaxNames},
            i : {1}, results : {<<>>}, log : {<<>>}, status : {"running"}] : h \in Handlers}

NoBatch ==
    [handler |-> "none", state |-> None, parsed_names |-> <<>>, i |-> 1,
     results |-> <<>>, log |-> <<>>, status |-> "none"]

\* lines 118-123 and 159-164: the arguments of the call for the item at i
ItemRequest(b) ==
    LET item == b.parsed_names[b.i]
    IN  [search_type |-> "name",
         physician_name |-> item.name,
         state |-> IF b.handler = "process_file" /\ Truthy(item.state)
                   THEN item.state ELSE b.state]

\* the loop body without its try: the exception reaches the handler's outer
\* except clause, which answers 500
OnError_abort(b) == [b EXCEPT !.status = "error"]

\* lines 129-131 and 170-172: the error is logged and the loop continues
OnError(b) == [b EXCEPT !.i = @ + 1]

\* lines 124-128 and 165-169: "if result: results.append(result)"
OnReturn(b, out) ==
    IF out.kind = "match"
    THEN [b EXCEPT !.results = Append(@, out.result[1]), !.i = @ + 1]
    ELSE [b EXCEPT !.i = @ + 1]

\* one turn of the loop, given what the call returned or raised
Turn(b, req, out) ==
    LET logged == [b EXCEPT !.log = Append(@, [request |-> req, outcome |-> out])]
    IN  IF out.kind = "error" THEN OnError(logged) ELSE OnReturn(logged, out)

(***************************************************************************)
(* Several calls in one process.  Everything a call works with is a local  *)
(* of its invocation, lines 80-98: the arguments, the session with its     *)
(* Retry, params, response, data.  The variables above hold the locals of  *)
(* the invocation that is running, peer those of another one, suspended.   *)
(***************************************************************************)
Context ==
    [request |-> request, pc |-> pc, total |-> total, attempts |-> attempts,
     response |-> response, queries |-> queries, data |-> data, outcome |-> outcome,
     seq |-> seq]

\* the locals of a call that has not started
Fresh(req, n) ==
    [request |-> req, pc |-> "call", total |-> 0, attempts |-> 0,
     response |-> NoResponse, queries |-> <<>>, data |-> <<>>, outcome |-> Pending,
     seq |-> n]

NoPeer == [Fresh([search_type |-> "none", physician_name |-> <<>>, state |-> None], 0)
               EXCEPT !.pc = "none"]

\* the Retry counter kept by the module: the invocation resumed goes on with the
\* counter the other one left
Resumed_shared(suspended, running) == [suspended EXCEPT !.total = running.total]

\* the locals an invocation goes on with when it is resumed: its own
Resumed(suspended, running) == suspended

JonRow == [PlainRow EXCEPT !.first = Str(<<"J","o","n">>)]

\* the answers of a remote dataset to the queries of CallRequests
Snapshots == {<<>>, <<PlainRow>>, <<JonRow, PlainRow>>}

CallRequests ==
    {[search_type |-> "name", physician_name |-> JohnSmith, state |-> None],
     [search_type |-> "name", physician_name |-> Smith, state |-> Some(<<"t","x">>)],
     [search_type |-> "name", physician_name |-> Blank, state |-> None],
     [search_type |-> "npi", physician_name |-> <<"1">>, state |-> None]}

Later(a, b) == IF a > b THEN a ELSE b

(***************************************************************************)
(* The calculation store of "Python Backend/cms_calc.py": the module's     *)
(* dict calculation_data_store (line 42), store_calculation (lines         *)
(* 180-184) and hubspot_webhook (lines 186-219).  A payload is the set of  *)
(* keys of the dict that was posted; the empty dict is the empty set.      *)
(***************************************************************************)
EmptyPayload == {}

FullPayload == {"providers", "totalPatients", "enrolledPatients", "annualRevenue", "annualProfit"}

Payloads == {EmptyPayload, FullPayload, FullPayload \cup {"notFoundNPIs"}, {"providers"}}

\* the keys generate_pdf_report indexes, lines 236-247
RequiredKeys == FullPayload

\* the identifiers uuid4 can hand out
CalcIds == 1..MaxStored

EmptyStore == [id \in {} |-> EmptyPayload]

Emails == {None, Some(<<>>), Some(<<"a","@","b">>)}

\* what the report sink does: "ok", or where it fails
Sinks == {"ok", "pdf", "smtp"}

NoHook ==
    [status |-> NoReply, raised |-> 0, email |-> None, calc_id |-> None, found |-> None,
     pdf |-> FALSE, sent |-> FALSE, failed |-> ""]

NoSite ==
    /\ calculation_data_store = EmptyStore
    /\ issued = <<>>
    /\ hook = NoHook

\* calculation_data_store[calc_id] = data, line 183
Put(store, calc_id, payload) ==
    [id \in DOMAIN store \cup {calc_id} |-> IF id = calc_id THEN payload ELSE store[id]]

\* calculation_data_store.get(calc_id), line 198
Lookup(store, calc_id) ==
    IF calc_id[1] \in DOMAIN store THEN Some(store[calc_id[1]]) ELSE None

\* Python truth of what .get returned: None and {} are both false
Found(got) == got # None /\ got[1] # {}

\* lines 217-219: the except clause answers 500 for whatever the try block raised,
\* its own HTTPException(400) and HTTPException(404) included
HookExcept(raised) == 500

\* lines 188-219 for a body that is a JSON object
HookRun(store, email, calc_id, sink) ==
    LET got == Lookup(store, calc_id)
        base == [NoHook EXCEPT !.email = email, !.calc_id = calc_id]
    IN  IF ~Truthy(email) \/ calc_id = None
        THEN [base EXCEPT !.raised = 400, !.status = HookExcept(400)]
        ELSE IF ~Found(got)
        THEN [base EXCEPT !.raised = 404, !.status = HookExcept(404)]
        ELSE IF ~(RequiredKeys \subseteq got[1]) \/ sink = "pdf"
        THEN [base EXCEPT !.found = got, !.failed = "pdf", !.status = HookExcept(0)]
        ELSE IF sink = "smtp"
        THEN [base EXCEPT !.found = got, !.pdf = TRUE, !.failed = "smtp",
                          !.status = HookExcept(0)]
        ELSE [base EXCEPT !.found = got, !.pdf = TRUE, !.sent = TRUE, !.status = 200]

(***************************************************************************)
(* The call.                                                               *)
(***************************************************************************)
Start ==
    /\ request \in Requests
    /\ pc = "call"
    /\ total = 0
    /\ attempts = 0
    /\ response = NoResponse
    /\ queries = <<>>
    /\ data = <<>>
    /\ outcome = Pending

\* one call of the draft of "Python Backend/cms_calc.py"
Init ==
    /\ Start
    /\ draft = Backend
    /\ endpoint = Backend
    /\ reply = NoReply
    /\ batch = NoBatch
    /\ seq = 1
    /\ peer = NoPeer
    /\ NoSite

\* one call of either draft
DraftInit ==
    /\ Start
    /\ draft \in Drafts
    /\ endpoint = Backend
    /\ reply = NoReply
    /\ batch = NoBatch
    /\ seq = 1
    /\ peer = NoPeer
    /\ NoSite

\* the retries of the draft's GET: Retry(total=3) mounted on the session, or none
\* for the plain requests.get of "Python Backend/src/cms_calc.py" (lines 62-66)
Retries(d) == IF d = Inner THEN 0 ELSE RetryTotal

\* the status makes the draft's adapter try again
Forced(d, status) == d # Inner /\ IsRetry(status)

\* lines 89-132: the session is built, the parameters are built and the GET is sent;
\* name_parts[0] of a term without a token raises before anything is sent
Call ==
    /\ pc = "call"
    /\ total' = Retries(draft)
    /\ IF request.search_type # "npi" /\ NameParts(request.physician_name).err # ""
       THEN /\ pc' = "done"
            /\ outcome' = Raised(NameParts(request.physician_name).err, 0)
            /\ UNCHANGED <<attempts, queries>>
       ELSE /\ pc' = "fetch"
            /\ queries' = Append(queries, Params(draft, request))
            /\ attempts' = 1
            /\ UNCHANGED outcome
    /\ UNCHANGED <<request, response, data>>
    /\ UNCHANGED others

\* an attempt that failed and may be retried: again, or the exception once exhausted
Retried(resp, exc) ==
    /\ response' = resp
    /\ IF IsExhausted(total - 1)
       THEN /\ pc' = "done"
            /\ outcome' = Raised(exc, 0)
            /\ UNCHANGED <<total, attempts>>
       ELSE /\ total' = total - 1
            /\ attempts' = attempts + 1
            /\ UNCHANGED <<pc, outcome>>
    /\ UNCHANGED <<request, queries, data>>
    /\ UNCHANGED others

\* the remote service answers an attempt with a status
StatusResponse(status) ==
    /\ IF Forced(draft, status)
       THEN Retried(Http(status), "RetryError")
       ELSE /\ RaisesForStatus(status)
            /\ response' = Http(status)
            /\ pc' = "done"
            /\ outcome' = Raised("HTTPError", 0)
            /\ UNCHANGED <<request, total, attempts, queries, data>>
            /\ UNCHANGED others

\* an attempt fails below HTTP (connection refused, reset, read timeout)
NetworkError ==
    /\ pc = "fetch"
    /\ Retried(NetworkFailure, "ConnectionError")

\* a 200 answer whose body is not JSON: response.json(), line 135, raises
BadBody ==
    /\ pc = "fetch"
    /\ response' = Http(200)
    /\ pc' = "done"
    /\ outcome' = Raised("JSONDecodeError", 0)
    /\ UNCHANGED <<request, total, attempts, queries, data>>
    /\ UNCHANGED others

\* a 200 answer with rows: lines 135-171
OkResponse(rows) ==
    /\ response' = Http(200)
    /\ data' = rows
    /\ pc' = "done"
    /\ outcome' = Returns(draft, request, rows)
    /\ UNCHANGED <<request, total, attempts, queries>>
    /\ UNCHANGED others

\* the remote service answers an attempt with 200 and some rows
Answer ==
    /\ pc = "fetch"
    /\ \E rows \in RowSeqs : OkResponse(rows)

\* the remote service answers an attempt with a failure status
Refuse ==
    /\ pc = "fetch"
    /\ \E status \in status_forcelist \cup PermanentStatuses : StatusResponse(status)

Next ==
    \/ Call
    \/ Refuse
    \/ NetworkError
    \/ BadBody
    \/ Answer

Spec == Init /\ [][Next]_vars

DraftSpec == DraftInit /\ [][Next]_vars

(***************************************************************************)
(* One request to a search_physician endpoint.                             *)
(***************************************************************************)
\* the requests of Requests and name searches for the empty term
EndpointRequests ==
    Requests \cup [search_type : {"name"}, physician_name : {<<>>}, state : States]

EndpointInit ==
    /\ endpoint \in Endpoints
    /\ request \in EndpointRequests
    /\ pc = (IF endpoint = Backend THEN "call" ELSE "import")
    /\ total = 0
    /\ attempts = 0
    /\ response = NoResponse
    /\ queries = <<>>
    /\ data = <<>>
    /\ outcome = Pending
    /\ draft = Backend
    /\ reply = NoReply
    /\ batch = NoBatch
    /\ seq = 1
    /\ peer = NoPeer
    /\ NoSite

\* the call of a fetch_physician_data imported from outside src
ImportedFetch ==
    /\ pc = "import"
    /\ pc' = "done"
    /\ outcome' \in ImportedReturns(request.physician_name)
    /\ UNCHANGED <<request, total, attempts, response, queries, data>>
    /\ UNCHANGED others

\* the endpoint answers
Respond ==
    /\ pc = "done"
    /\ reply = NoReply
    /\ reply' = Translate(endpoint, outcome)
    /\ UNCHANGED <<request, pc, total, attempts, response, queries, data, outcome>>
    /\ UNCHANGED <<draft, endpoint, batch, seq, peer>>
    /\ UNCHANGED site

EndpointNext ==
    \/ Call
    \/ Refuse
    \/ NetworkError
    \/ BadBody
    \/ Answer
    \/ ImportedFetch
    \/ Respond

EndpointSpec == EndpointInit /\ [][EndpointNext]_vars

(***************************************************************************)
(* One request to a bulk handler of api.py.                                *)
(***************************************************************************)
BulkInit ==
    /\ batch \in Batches
    /\ request = [search_type |-> "name", physician_name |-> <<>>, state |-> None]
    /\ pc = "bulk"
    /\ total = 0
    /\ attempts = 0
    /\ response = NoResponse
    /\ queries = <<>>
    /\ data = <<>>
    /\ outcome = Pending
    /\ draft = Backend
    /\ endpoint = Api
    /\ reply = NoReply
    /\ seq = 1
    /\ peer = NoPeer
    /\ NoSite

\* lines 110-112 and 151-153: "if not parsed_names: return []"
NoNames ==
    /\ batch.status = "running"
    /\ batch.parsed_names = <<>>
    /\ batch' = [batch EXCEPT !.status = "returned"]
    /\ UNCHANGED <<request, pc, total, attempts, response, queries, data, outcome>>
    /\ UNCHANGED <<draft, endpoint, reply, seq, peer>>
    /\ UNCHANGED site

\* lines 115-131 and 156-172: one item of the loop
Item ==
    /\ batch.status = "running"
    /\ batch.i <= Len(batch.parsed_names)
    /\ request' = ItemRequest(batch)
    /\ outcome' \in ImportedReturns(request'.physician_name)
    /\ batch' = Turn(batch, request', outcome')
    /\ UNCHANGED <<pc, total, attempts, response, queries, data>>
    /\ UNCHANGED <<draft, endpoint, reply, seq, peer>>
    /\ UNCHANGED site

\* lines 133-134 and 174-175: the loop is over, "return results"
ReturnResults ==
    /\ batch.status = "running"
    /\ batch.parsed_names # <<>>
    /\ batch.i > Len(batch.parsed_names)
    /\ batch' = [batch EXCEPT !.status = "returned"]
    /\ UNCHANGED <<request, pc, total, attempts, response, queries, data, outcome>>
    /\ UNCHANGED <<draft, endpoint, reply, seq, peer>>
    /\ UNCHANGED site

BulkNext ==
    \/ NoNames
    \/ Item
    \/ ReturnResults

BulkSpec == BulkInit /\ [][BulkNext]_vars

(***************************************************************************)
(* Calls of fetch_physician_data one after another and interleaved.        *)
(***************************************************************************)
CallsInit ==
    /\ request \in CallRequests
    /\ pc = "call"
    /\ total = 0
    /\ attempts = 0
    /\ response = NoResponse
    /\ queries = <<>>
    /\ data = <<>>
    /\ outcome = Pending
    /\ seq = 1
    /\ peer \in {Fresh(req, 2) : req \in CallRequests}
    /\ draft = Backend
    /\ endpoint = Backend
    /\ reply = NoReply
    /\ batch = NoBatch
    /\ NoSite

\* the remote service answers an attempt with 200 and the rows of a snapshot
AnswerSnapshot ==
    /\ pc = "fetch"
    /\ \E rows \in Snapshots : OkResponse(rows)

\* the running invocation is suspended and the other one goes on
Switch ==
    LET r == Resumed(peer, Context)
    IN  /\ peer' = Context
        /\ request' = r.request
        /\ pc' = r.pc
        /\ total' = r.total
        /\ attempts' = r.attempts
        /\ response' = r.response
        /\ queries' = r.queries
        /\ data' = r.data
        /\ outcome' = r.outcome
        /\ seq' = r.seq
        /\ UNCHANGED <<draft, endpoint, reply, batch>>
        /\ UNCHANGED site

\* the call is over and the process makes its next call
Again ==
    /\ pc = "done"
    /\ Later(seq, peer.seq) < MaxCalls
    /\ \E req \in CallRequests :
          LET f == Fresh(req, Later(seq, peer.seq) + 1)
          IN  /\ request' = f.request
              /\ pc' = f.pc
              /\ total' = f.total
              /\ attempts' = f.attempts
              /\ response' = f.response
              /\ queries' = f.queries
              /\ data' = f.data
              /\ outcome' = f.outcome
              /\ seq' = f.seq
    /\ UNCHANGED <<draft, endpoint, reply, batch, peer>>
    /\ UNCHANGED site

CallsNext ==
    \/ Call
    \/ Refuse
    \/ NetworkError
    \/ BadBody
    \/ AnswerSnapshot
    \/ Switch
    \/ Again

CallsSpec == CallsInit /\ [][CallsNext]_vars

(***************************************************************************)
(* Requests to store_calculation and hubspot_webhook, in any order.  Each  *)
(* handler runs to its end on the event loop once its body has been read.  *)
(***************************************************************************)
StoreInit ==
    /\ NoSite
    /\ request = [search_type |-> "name", physician_name |-> <<>>, state |-> None]
    /\ pc = "store"
    /\ total = 0
    /\ attempts = 0
    /\ response = NoResponse
    /\ queries = <<>>
    /\ data = <<>>
    /\ outcome = Pending
    /\ draft = Backend
    /\ endpoint = Backend
    /\ reply = NoReply
    /\ batch = NoBatch
    /\ seq = 1
    /\ peer = NoPeer

\* lines 180-184; uuid4 hands out an identifier it has not handed out before
StoreCalculation ==
    /\ \E payload \in Payloads, calc_id \in CalcIds \ DOMAIN calculation_data_store :
          /\ calculation_data_store' = Put(calculation_data_store, calc_id, payload)
          /\ issued' = Append(issued, [calc_id |-> calc_id, payload |-> payload])
    /\ UNCHANGED hook
    /\ UNCHANGED <<request, pc, total, attempts, response, queries, data, outcome>>
    /\ UNCHANGED <<draft, endpoint, reply, batch, seq, peer>>

\* lines 186-219
HubspotWebhook ==
    /\ \E email \in Emails, calc_id \in {None} \cup {Some(id) : id \in CalcIds}, sink \in Sinks :
          hook' = HookRun(calculation_data_store, email, calc_id, sink)
    /\ UNCHANGED <<calculation_data_store, issued>>
    /\ UNCHANGED <<request, pc, total, attempts, response, queries, data, outcome>>
    /\ UNCHANGED <<draft, endpoint, reply, batch, seq, peer>>

\* line 189: request.json() raises on a body that is not JSON
HookBadBody ==
    /\ hook' = [NoHook EXCEPT !.failed = "json", !.status = HookExcept(0)]
    /\ UNCHANGED <<calculation_data_store, issued>>
    /\ UNCHANGED <<request, pc, total, attempts, response, queries, data, outcome>>
    /\ UNCHANGED <<draft, endpoint, reply, batch, seq, peer>>

StoreNext ==
    \/ StoreCalculation
    \/ HubspotWebhook
    \/ HookBadBody

StoreSpec == StoreInit /\ [][StoreNext]_vars

(***************************************************************************)
(* Vocabulary of the properties.                                           *)
(***************************************************************************)
Done == pc = "done"

ByName == request.search_type = "name"

ByNpi == request.search_type = "npi"

\* the call got a 200 answer and decoded its rows
Fetched == Done /\ response = Http(200) /\ outcome.err # "JSONDecodeError"

\* the call returned (a dict or None) instead of raising
Returned == Done /\ outcome.kind \in {"match", "notfound"}

firstName == NameParts(request.physician_name).first_name

lastName == NameParts(request.physician_name).last_name

Min(S) == CHOOSE x \in S : \A y \in S : x <= y

HasNames(r) == r.first.t = "str" /\ r.last.t = "str"

LacksName(r) == r.first = Absent \/ r.last = Absent

\* last/org name equal and first name a prefix match, both ignoring case
Tier1Row(r) ==
    /\ r.last.t = "str"
    /\ Lower(r.last.s) = Lower(lastName)
    /\ \/ firstName = <<>>
       \/ r.first.t = "str" /\ StartsWith(Lower(r.first.s), Lower(firstName))

\* last/org name equal, first name holds firstName somewhere but not as a prefix
Tier2Row(r) ==
    /\ HasNames(r)
    /\ Lower(r.last.s) = Lower(lastName)
    /\ Contains(Lower(r.first.s), Lower(firstName))
    /\ ~Tier1Row(r)

Tier1Rows == {i \in 1..Len(data) : Tier1Row(data[i])}

Tier2Rows == {i \in 1..Len(data) : Tier2Row(data[i])}

(***************************************************************************)
(* C1: a name search that returns hands back the first row, in scan order, *)
(* whose last/org name equals lastName ignoring case and whose first name  *)
(* starts with firstName ignoring case (or firstName is empty); the scan   *)
(* stops at that row, and earlier rows that do not match are passed over.  *)
(***************************************************************************)
C1_FirstTier1RowReturned ==
    (Fetched /\ ByName /\ Returned /\ Tier1Rows # {}) =>
        /\ outcome.kind = "match"
        /\ outcome.idx = Min(Tier1Rows)
        /\ outcome.examined = Min(Tier1Rows)
        /\ outcome.result = Project(data[Min(Tier1Rows)]).result

\* "John Smith" against <<Jon SMITH, john SMITH>>: the second row is returned
C1_Witness ==
    /\ Fetched /\ ByName
    /\ request.physician_name = JohnSmith
    /\ Len(data) = 2
    /\ data[1].first = Str(<<"J","o","n">>) /\ data[1].last = Str(<<"S","M","I","T","H">>)
    /\ data[2].first = Str(<<"j","o","h","n">>)
    /\ outcome.kind = "match" /\ outcome.idx = 2

C3_TierPriority ==
    (Fetched /\ ByName /\ Returned /\ Tier1Rows # {} /\ Tier2Rows # {}) =>
        /\ outcome.kind = "match"
        /\ Tier1Row(data[outcome.idx])
        /\ ~Tier2Row(data[outcome.idx])

\* the Tier-2 row comes first and is passed over
C3_Witness ==
    /\ Fetched /\ ByName
    /\ Len(data) = 2
    /\ Tier2Row(data[1]) /\ Tier1Row(data[2])
    /\ outcome.kind = "match" /\ outcome.idx = 2

(***************************************************************************)
(* C4: a call that was given a state never returns a row of another state: *)
(* the result's State is the requested state, upper-cased, whatever rows   *)
(* the remote service handed back.                                         *)
(***************************************************************************)
C4_StateFilter ==
    (Fetched /\ outcome.kind = "match" /\ Truthy(request.state)) =>
        outcome.result[1].State = Str(Upper(request.state[1]))

(***************************************************************************)
(* C5: when the rows handed back honour the NPI filter of the query (the   *)
(* remote service filters NPI exactly), the NPI of the result an NPI       *)
(* search returns is the request's term, trimmed.                          *)
(***************************************************************************)
HonoursNpiFilter ==
    \A i \in 1..Len(data) : \A q \in 1..Len(queries) :
        queries[q].npi # None => data[i].npi = Str(queries[q].npi[1])

C5_NpiOfResultIsTerm ==
    (Fetched /\ ByNpi /\ outcome.kind = "match" /\ HonoursNpiFilter) =>
        outcome.result[1].NPI = Str(Strip(request.physician_name))

C5_Witness ==
    /\ Fetched /\ ByNpi /\ HonoursNpiFilter
    /\ outcome.kind = "match"
    /\ outcome.result[1].NPI = Str(<<"1">>)
    /\ data[1].last = Str(<<"D","o","e">>)

NoStats(r) == r.benes \in {Absent, Null} /\ r.amt \in {Absent, Null}

C7_MissingStatsDefault ==
    (/\ Fetched
     /\ outcome.examined \in 1..Len(data)
     /\ HasNames(data[outcome.examined])
     /\ NoStats(data[outcome.examined])
     /\ ByNpi \/ (ByName /\ Tier1Row(data[outcome.examined]))) =>
        /\ outcome.kind = "match"
        /\ outcome.result[1].Tot_Benes = 0
        /\ outcome.result[1].Tot_Mdcr_Alowd_Amt = Float(0)

(***************************************************************************)
(* C8: a name scan skips a row that lacks a name key without raising, and  *)
(* still returns the well-formed matching row that follows it.             *)
(***************************************************************************)
WellFormed(r) == HasNames(r) /\ ToNumber(r.benes).err = "" /\ ToNumber(r.amt).err = ""

ValidMatches == {i \in 1..Len(data) : WellFormed(data[i]) /\ Tier1Row(data[i])}

C8_MalformedRowSkipped ==
    (Fetched /\ ByName /\ \E i \in 1..Len(data) : LacksName(data[i])) =>
        /\ outcome.err # "KeyError"
        /\ ValidMatches # {} => outcome.kind = "match" /\ outcome.idx = Min(ValidMatches)

(***************************************************************************)
(* C9 as stated: one call makes at most 3 HTTP attempts, and a transient   *)
(* failure that ends the call surfaces as an error.                        *)
(***************************************************************************)
EndedByFailure == Done /\ (response = NetworkFailure \/
                            (response.kind = "http" /\ response.status # 200))

C9_AtMostThreeAttempts ==
    /\ attempts <= 3
    /\ EndedByFailure => outcome.kind = "error"

(***************************************************************************)
(* C9 amended: one call makes at most 4 HTTP attempts, the first and up to *)
(* 3 retries; a call ended by a transient failure made all 4 and raises.   *)
(***************************************************************************)
C9_AtMostFourAttempts ==
    /\ attempts <= 4
    /\ EndedByFailure => outcome.kind = "error"
    /\ (EndedByFailure /\ (response = NetworkFailure
                            \/ response.status \in {429, 500, 502, 503, 504})) =>
          attempts = 4

C9_Witness ==
    /\ Done /\ attempts = 4
    /\ response = Http(503)
    /\ outcome = Raised("RetryError", 0)

(***************************************************************************)
(* C10: a failure status other than 429/500/502/503/504 is never retried:  *)
(* it ends the call with an HTTP error, not with None, and when it answers *)
(* the first attempt the call made exactly one attempt.                    *)
(***************************************************************************)
C10_PermanentFailureNotRetried ==
    (/\ response.kind = "http"
     /\ response.status # 200
     /\ response.status \notin {429, 500, 502, 503, 504}) =>
        /\ Done
        /\ outcome = Raised("HTTPError", 0)
        /\ attempts + total = 4
        /\ total = 3 => attempts = 1

C10_Witness ==
    /\ Done /\ attempts = 1
    /\ response = Http(404)
    /\ outcome.kind = "error" /\ outcome.err = "HTTPError"

(***************************************************************************)
(* C11: every step that ends the call on a failure (a failed attempt that  *)
(* is not retried, a permanent status, an undecodable body, a term without *)
(* a token) ends it with an exception, never with None; and the call       *)
(* returns None only in a step that decoded a 200 answer.                  *)
(***************************************************************************)
C11_FatalErrorsPropagate ==
    [][/\ BadBody => outcome'.kind = "error"
       /\ (pc = "fetch" /\ pc' = "done" /\ response' # Http(200)) => outcome'.kind = "error"
       /\ (pc = "call" /\ pc' = "done") => outcome'.kind = "error"
       /\ (outcome.kind # "notfound" /\ outcome'.kind = "notfound") =>
             (pc = "fetch" /\ response' = Http(200) /\ outcome' = NotFound(Len(data')))]_vars

C11_Witness ==
    /\ Done /\ response = Http(200)
    /\ attempts = 2
    /\ outcome.kind = "error" /\ outcome.err = "JSONDecodeError"

(***************************************************************************)
(* C12: an empty row sequence makes the call return None, for a name       *)
(* search and for an NPI search, with no exception and no row examined.    *)
(***************************************************************************)
C12_EmptyFetchNotFound ==
    (Done /\ response = Http(200) /\ data = <<>> /\ outcome.err # "JSONDecodeError") =>
        /\ outcome.kind = "notfound"
        /\ outcome.err = ""
        /\ outcome.examined = 0

C12_Witness ==
    /\ Fetched /\ ByNpi
    /\ data = <<>>
    /\ outcome.kind = "notfound"

(***************************************************************************)
(* C14 as stated: for every ByName term with a token, the names the call   *)
(* works with (and the last name it sends) are those of the TRIMMED term   *)
(* split at its first whitespace run: the first token and everything after *)
(* the run, or (empty, the token) when there is one token.                 *)
(***************************************************************************)
C14_TrimmedTermSplit ==
    (ByName /\ queries # <<>>) =>
        LET t == Strip(request.physician_name)
            e == SkipToken(t, 1)
            r == SkipSpaces(t, e)
            one == r > Len(t)
        IN  /\ firstName = (IF one THEN <<>> ELSE SubSeq(t, 1, e - 1))
            /\ lastName = (IF one THEN t ELSE SubSeq(t, r, Len(t)))
            /\ queries[1].last = Some(lastName)

(***************************************************************************)
(* C16 as stated: the name of every returned result is the selected row's  *)
(* first and last name joined by one space and trimmed, so it has no       *)
(* leading or trailing whitespace, also for a row with an empty first name.*)
(***************************************************************************)
C16_NameTrimmed ==
    (Returned /\ outcome.kind = "match" /\ HasNames(data[outcome.idx])) =>
        LET r == data[outcome.idx]
            name == outcome.result[1].name
        IN  /\ name = Strip(r.first.s \o <<" ">> \o r.last.s)
            /\ name # <<>> => ~IsSpace(name[1]) /\ ~IsSpace(name[Len(name)])

(***************************************************************************)
(* C17: every field of a returned result comes from the selected row:      *)
(* name is the row's first name, one space, the row's last name, in the    *)
(* row's casing; NPI and State are the row's values unchanged.             *)
(***************************************************************************)
C17_ProjectionFromRow ==
    (Returned /\ outcome.kind = "match") =>
        LET r == data[outcome.idx]
            m == outcome.result[1]
        IN  /\ HasNames(r)
            /\ m.name = r.first.s \o <<" ">> \o r.last.s
            /\ m.NPI = r.npi
            /\ m.State = r.state

C17_Witness ==
    /\ Returned /\ outcome.kind = "match"
    /\ request.physician_name = JohnSmith
    /\ request.state = Some(<<"t","x">>)
    /\ outcome.idx = 2
    /\ outcome.result[1].name = <<"j","o","h","n"," ","S","M","I","T","H">>
    /\ outcome.result[1].State = Str(<<"C","A">>)

(***************************************************************************)
(* C15 as stated: the query of a ByName request filters the last/org name  *)
(* with lastName only, caps the result at 5000 and carries no first name;  *)
(* the query of a request of either kind carries the upper-cased state     *)
(* when a state is supplied and no state filter otherwise.                 *)
(***************************************************************************)
C15_RemoteFilter ==
    (queries # <<>>) =>
        /\ Len(queries) = 1
        /\ ByName => /\ queries[1].last = Some(lastName)
                     /\ queries[1].npi = None
                     /\ queries[1].size = 5000
        /\ queries[1].state =
               (IF request.state = None THEN None ELSE Some(Upper(request.state[1])))

(***************************************************************************)
(* C20 as stated: in every search_physician endpoint a lookup that returns *)
(* None is answered with 404 and a lookup that raises is answered with     *)
(* 500.                                                                    *)
(***************************************************************************)
C20_BoundaryTranslation ==
    (reply # NoReply) =>
        /\ outcome.kind = "notfound" => reply = 404
        /\ outcome.kind = "error" => reply = 500

\* the dicts of the logged calls that returned one, in the order of the calls
MatchesOf(log) ==
    LET found == SelectSeq(log, LAMBDA c : c.outcome.kind = "match")
    IN  [k \in 1..Len(found) |-> found[k].outcome.result[1]]

(***************************************************************************)
(* C13: in both bulk handlers no outcome of an item ends the batch: the    *)
(* loop calls fetch_physician_data for every parsed name in input order,   *)
(* whatever the earlier calls returned or raised, and the batch returns    *)
(* exactly the dicts of the calls that returned one, in input order.       *)
(***************************************************************************)
C13_BulkErrorIsolation ==
    (batch.status # "none") =>
        /\ batch.status \in {"running", "returned"}
        /\ Len(batch.log) = batch.i - 1
        /\ \A k \in 1..Len(batch.log) :
               batch.log[k].request.physician_name = batch.parsed_names[k].name
        /\ batch.results = MatchesOf(batch.log)
        /\ batch.status = "returned" => Len(batch.log) = Len(batch.parsed_names)

C13_Witness ==
    /\ batch.status = "returned"
    /\ batch.handler = "process_file"
    /\ Len(batch.log) = 2
    /\ batch.log[1].outcome.kind = "error"
    /\ batch.log[2].outcome.kind = "match"
    /\ batch.log[2].request.state = Some(<<"C","A">>)
    /\ Len(batch.results) = 1

\* c got a 200 answer and decoded its rows
FetchedBy(c) == c.pc = "done" /\ c.response = Http(200) /\ c.outcome.err # "JSONDecodeError"

RunsAlone(c) ==
    /\ c.pc = "fetch" => c.attempts + c.total = RetryTotal + 1
    /\ (c.pc = "done" /\ c.response # NoResponse) => c.attempts + c.total = RetryTotal + 1
    /\ c.pc \in {"fetch", "done"} /\ c.queries # <<>> => c.queries = <<BuildParams(c.request)>>
    /\ FetchedBy(c) => c.outcome = Resolve(c.request, c.data)
    /\ (c.pc = "done" /\ c.outcome.err = "RetryError") => c.attempts = RetryTotal + 1

C24_BlankTermFails ==
    (endpoint = Backend /\ ByName /\ Strip(request.physician_name) = <<>> /\ pc # "call") =>
        /\ pc = "done"
        /\ outcome.kind = "error"
        /\ attempts = 0
        /\ queries = <<>>
        /\ response = NoResponse
        /\ reply \in {NoReply, 500}

C24_Witness ==
    /\ endpoint = Backend /\ ByName
    /\ request.physician_name = <<>>
    /\ outcome.err = "IndexError"
    /\ attempts = 0
    /\ reply = 500

(***************************************************************************)
(* C21 as stated: every reply of store_calculation stays true of the store *)
(* (its calc_id maps to its payload, no two replies share a calc_id), and  *)
(* a hubspot_webhook request with a non-empty email and a calc_id that was *)
(* handed out finds exactly the payload stored under it, the empty payload *)
(* included.                                                               *)
(***************************************************************************)
C21_StoreRoundTrip ==
    /\ \A k \in 1..Len(issued) :
          /\ issued[k].calc_id \in DOMAIN calculation_data_store
          /\ calculation_data_store[issued[k].calc_id] = issued[k].payload
          /\ \A j \in 1..Len(issued) : issued[j].calc_id = issued[k].calc_id => j = k
    /\ (hook.status # NoReply /\ hook.failed # "json" /\ Truthy(hook.email)) =>
          \A k \in 1..Len(issued) :
              hook.calc_id = Some(issued[k].calc_id) => hook.found = Some(issued[k].payload)

(***************************************************************************)
(* C22 as stated: hubspot_webhook answers 400 when email or calc_id is     *)
(* missing and 404 when nothing is stored under the calc_id, in both cases *)
(* without a PDF or an email; it answers 500 only when the report or its   *)
(* delivery failed.                                                        *)
(***************************************************************************)
C22_WebhookStatuses ==
    (hook.status # NoReply /\ hook.failed # "json") =>
        /\ (~Truthy(hook.email) \/ hook.calc_id = None) =>
              hook.status = 400 /\ ~hook.pdf /\ ~hook.sent
        /\ (Truthy(hook.email) /\ hook.calc_id # None
              /\ hook.calc_id[1] \notin DOMAIN calculation_data_store) =>
              hook.status = 404 /\ ~hook.pdf /\ ~hook.sent
        /\ hook.status = 500 => hook.failed \in {"pdf", "smtp"}

\* the outcome of draft d for the request and the rows of the state
OutcomeOf(d) == Returns(d, request, data)

(***************************************************************************)
(* C23 as stated: for every request and every row sequence the remote      *)
(* service returns, the four drafts of fetch_physician_data agree on the   *)
(* outcome: all return None, or all select the same row.                   *)
(***************************************************************************)
C23_DraftsAgree ==
    Fetched =>
        \A d \in Drafts :
            /\ OutcomeOf(d).kind = outcome.kind
            /\ OutcomeOf(d).idx = outcome.idx

====
